---- MODULE Spec2Model ----
(***************************************************************************)
(* Model of SpriteCreator.__init__ (src/tqdb/utils/images.py): the images  *)
(* of a directory are sorted by file name, categorised by size, packed     *)
(* row by row into canvases 768 pixels wide, and the canvases are stacked  *)
(* into one sprite image; one css rule is emitted per image.               *)
(*                                                                         *)
(* Strings are sequences of character codes, compared the way Python       *)
(* compares str values (code point by code point, a proper prefix first).  *)
(***************************************************************************)
EXTENDS Integers, Sequences, FiniteSets, TLC

\* Largest number of png files in the sprite directory.
MaxImages == 3

\* Line 59: maximum width of the sprite.
sprite_width == 768

\* File names (without extension) a directory may hold: "a", "a b", "ab",
\* "b", "c".  A directory of at most n files draws on the first n names.
AllFilenames == << <<97>>, <<97, 32, 98>>, <<97, 98>>, <<98>>, <<99>> >>
Filenames ==
  {AllFilenames[i] : i \in 1..(IF MaxImages < 5 THEN MaxImages ELSE 5)}

\* Image sizes (width, height) of the files.
Sizes == {<<10, 50>>, <<384, 50>>, <<700, 50>>, <<384, 100>>,
          <<768, 50>>, <<800, 60>>}

\* An opened image: Image.open(file) with its filename attribute set.
ImageObjects ==
  {[filename |-> f, width |-> s[1], height |-> s[2]] :
     f \in Filenames, s \in Sizes}

\* The png files a sprite directory may hold: distinct names, any sizes.
Directories ==
  UNION {{{[filename |-> n, width |-> f[n][1], height |-> f[n][2]] : n \in N} :
            f \in [N -> Sizes]} :
         N \in SUBSET Filenames}

\* Line 29: glob.glob lists the files of a directory in an arbitrary order.
Glob(dir) ==
  {d \in [1..Cardinality(dir) -> dir] :
     \A i, j \in 1..Cardinality(dir) : i # j => d[i] # d[j]}

-----------------------------------------------------------------------------
(* Strings *)

\* Python's str "<": the first differing character decides, and a proper
\* prefix is smaller.
StrLess(s, t) ==
  LET n == IF Len(s) < Len(t) THEN Len(s) ELSE Len(t)
  IN IF \E i \in 1..n : s[i] # t[i]
     THEN LET k == CHOOSE i \in 1..n :
                     s[i] # t[i] /\ \A j \in 1..(i - 1) : s[j] = t[j]
          IN s[k] < t[k]
     ELSE Len(s) < Len(t)

\* The decimal digits of a natural number.
RECURSIVE Digits(_)
Digits(n) ==
  IF n < 10 THEN <<48 + n>> ELSE Digits(n \div 10) \o <<48 + (n % 10)>>

\* f'{n}' for an int n.
IntToStr(n) == IF n < 0 THEN <<45>> \o Digits(0 - n) ELSE Digits(n)

\* s.split(sep) for a one-character separator.
RECURSIVE Split(_, _)
Split(s, sep) ==
  IF \A i \in 1..Len(s) : s[i] # sep THEN <<s>>
  ELSE LET k == CHOOSE i \in 1..Len(s) :
                  s[i] = sep /\ \A j \in 1..(i - 1) : s[j] # sep
       IN <<SubSeq(s, 1, k - 1)>> \o Split(SubSeq(s, k + 1, Len(s)), sep)

\* int(s) for a string of decimal digits with an optional leading "-".
RECURSIVE DigitsValue(_)
DigitsValue(s) ==
  IF s = <<>> THEN 0
  ELSE 10 * DigitsValue(SubSeq(s, 1, Len(s) - 1)) + (s[Len(s)] - 48)

StrToInt(s) ==
  IF s # <<>> /\ Head(s) = 45 THEN 0 - DigitsValue(Tail(s))
  ELSE DigitsValue(s)

\* One element, with its key, put behind every element of a sorted list
\* whose key is not greater than its own.
Insert(sorted, pair) ==
  LET c == Cardinality({j \in 1..Len(sorted) : ~(pair[1] < sorted[j][1])})
  IN SubSeq(sorted, 1, c) \o <<pair>> \o SubSeq(sorted, c + 1, Len(sorted))

\* The first n elements of seq, each with its key, in stable ascending
\* order of the keys.
RECURSIVE SortedPairs(_, _, _)
SortedPairs(seq, keys, n) ==
  IF n = 0 THEN <<>>
  ELSE Insert(SortedPairs(seq, keys, n - 1), <<keys[n], seq[n]>>)

\* list.sort(key=...) for integer keys: seq in the stable ascending order
\* of its keys (keys[i] is the key of seq[i]).
StableSort(seq, keys) ==
  LET all == SortedPairs(seq, keys, Len(seq))
  IN [k \in 1..Len(seq) |-> all[k][2]]

\* The place of each string among the others under Python's str "<":
\* sorting by these numbers is sorting by the strings.
StrRanks(strs) ==
  [i \in 1..Len(strs) |->
     Cardinality({j \in 1..Len(strs) : StrLess(strs[j], strs[i])})]

-----------------------------------------------------------------------------
(* Lines 34-56: the emptiness test, the file name sort, the size map *)

\* The emptiness test with "<" for "<=": it never holds.
NoImages_Never(imgs) == Len(imgs) < 0

\* Line 34.
NoImages(imgs) == Len(imgs) <= 0

\* The images left in the order glob listed them.
SortedByFilename_Unsorted(imgs) == imgs

\* Line 41: images.sort(key=lambda x: x.filename).
SortedByFilename(imgs) ==
  StableSort(imgs, StrRanks([i \in 1..Len(imgs) |-> imgs[i].filename]))

\* The key made of the height twice, the width left out.
KeyOf_HeightTwice(image) ==
  IntToStr(image.height) \o <<120>> \o IntToStr(image.height)

\* Line 48: key = f'{width}x{height}'.
KeyOf(image) == IntToStr(image.width) \o <<120>> \o IntToStr(image.height)

\* Lines 44-52: images_map as the list of its (key, images) items in
\* insertion order, which is the order a dict keeps.
RECURSIVE Categorized(_, _)
Categorized(map, imgs) ==
  IF imgs = <<>> THEN map
  ELSE LET image == Head(imgs)
           key == KeyOf(image)
           new == IF \E i \in 1..Len(map) : map[i].key = key
                  THEN [i \in 1..Len(map) |->
                          IF map[i].key = key
                          THEN [map[i] EXCEPT !.images = Append(@, image)]
                          ELSE map[i]]
                  ELSE Append(map, [key |-> key, images |-> <<image>>])
       IN Categorized(new, Tail(imgs))

\* images_map[key].
ImagesOf(map, key) ==
  (CHOOSE i \in 1..Len(map) : map[i].key = key)

-----------------------------------------------------------------------------
(* Lines 61-64, 84-95: one css rule per image *)

\* The unit suffix put on every value, zero included.
Px_AlwaysUnit(v) == [val |-> v, px |-> TRUE]

\* Lines 86-95: f'{v}px' if v != 0 else v.
Px(v) == IF v # 0 THEN [val |-> v, px |-> TRUE] ELSE [val |-> v, px |-> FALSE]

\* Line 131: the literal 0 of the overflow branch.
Bare(v) == [val |-> v, px |-> FALSE]

\* The arguments of sprite_css.format for an image at the given position.
Rule(image, posx, posy) ==
  [filename |-> image.filename, posx |-> posx, posy |-> posy,
   width |-> Px(image.width), height |-> Px(image.height)]

\* str of one formatted argument.
ArgText(t) == IF t.px THEN IntToStr(t.val) \o <<112, 120>> ELSE IntToStr(t.val)

\* Lines 61-64: the text sprite_css.format produces.
SpriteCss(r) ==
  <<46>> \o r.filename
  \o <<32, 123, 10, 32, 32, 98, 97, 99, 107, 103, 114, 111, 117, 110, 100, 45, 112, 111, 115, 105, 116, 105, 111, 110, 58, 32>> \o ArgText(r.posx)
  \o <<32>> \o ArgText(r.posy)
  \o <<59, 10, 32, 32, 119, 105, 100, 116, 104, 58, 32>> \o ArgText(r.width)
  \o <<59, 10, 32, 32, 104, 101, 105, 103, 104, 116, 58, 32>> \o ArgText(r.height)
  \o <<59, 10, 125, 10>>

\* Line 165: css.sort() orders the formatted texts.
RECURSIVE CssTexts(_)
CssTexts(rules) ==
  IF rules = <<>> THEN <<>>
  ELSE <<SpriteCss(Head(rules))>> \o CssTexts(Tail(rules))

\* The rules left in the order they were emitted in, without line 165.
SortedCss_Unsorted(rules) == rules

\* Line 165: css.sort().
SortedCss(rules) == StableSort(rules, StrRanks(CssTexts(rules)))

-----------------------------------------------------------------------------
(* Lines 72-145: canvases and the three placement branches *)

\* Image.new(mode='RGBA', size=(w, h), color=(0, 0, 0, 0)).
NewImage(w, h) == [size |-> <<w, h>>, pasted |-> <<>>]

\* canvas.paste(image, (px, py)) on the object objs[c].
Paste(objs, c, image, px, py) ==
  [objs EXCEPT ![c].pasted =
     Append(@, [filename |-> image.filename, x |-> px, y |-> py,
                width |-> image.width, height |-> image.height])]

\* Line 72: canvas_width, canvas_height = tuple(map(int, key.split('x'))).
CanvasHeight(key) == StrToInt(Split(key, 120)[2])

\* The keys sorted as strings, without the key function of line 56.
SortedKeys_Lexicographic(map) ==
  StableSort([i \in 1..Len(map) |-> map[i].key],
             StrRanks([i \in 1..Len(map) |-> map[i].key]))

\* Line 56: the sort key int(x.split('x')[1]).
SortedKeys(map) ==
  StableSort([i \in 1..Len(map) |-> map[i].key],
             [i \in 1..Len(map) |-> StrToInt(Split(map[i].key, 120)[2])])

\* The strict test with "<=" for "<": an exact fit counts as a strict one.
StrictlyFits_OrEqual(col, w) == col + w <= sprite_width

\* The strict test on the cursor alone, without the width of the image.
StrictlyFits_IgnoresWidth(col, w) == col < sprite_width

\* Line 82.
StrictlyFits(col, w) == col + w < sprite_width

\* The exact test with ">=" for "==": an overflowing image counts as an
\* exact fit.
ExactlyFits_OrMore(col, w) == col + w >= sprite_width

\* Line 98.
ExactlyFits(col, w) == col + w = sprite_width

\* Line 113.
IsLastImage(i, n) == i = n - 1

\* Line 143.
LastRowOpen(col) == col < sprite_width

\* The packing state is the record p of sprite_height, css, canvases, the
\* canvas objects (heap), the current canvas and x.

\* Lines 74-77: a fresh canvas of the key's height, x = 0.
Begin(p, ch) ==
  [p EXCEPT !.heap = Append(@, NewImage(sprite_width, ch)),
            !.canvas = Len(p.heap) + 1,
            !.x = 0]

\* Lines 83-96.
StrictFit(p, image) ==
  [p EXCEPT !.heap = Paste(@, p.canvas, image, p.x, 0),
            !.css = Append(@, Rule(image, Px(0 - p.x),
                                   Px(0 - p.sprite_height))),
            !.x = @ + image.width]

\* The exact-fit branch without the test of line 113: the canvas is
\* appended after every exact fit.
ExactFit_AlwaysSeals(p, image, last, ch) ==
  [p EXCEPT !.heap = Paste(@, p.canvas, image, p.x, 0),
            !.css = Append(@, Rule(image, Px(0 - p.x),
                                   Px(0 - p.sprite_height))),
            !.canvases = Append(@, p.canvas),
            !.sprite_height = @ + ch,
            !.x = IF last THEN @ ELSE @ + image.width]

\* Lines 99-119.
ExactFit(p, image, last, ch) ==
  LET q == [p EXCEPT !.heap = Paste(@, p.canvas, image, p.x, 0),
                     !.css = Append(@, Rule(image, Px(0 - p.x),
                                            Px(0 - p.sprite_height)))]
  IN IF last
     THEN [q EXCEPT !.canvases = Append(@, p.canvas),
                    !.sprite_height = @ + ch]
     ELSE [q EXCEPT !.x = @ + image.width]

\* The overflow branch with its rule formatted before sprite_height is
\* advanced.
Overflow_StaleOffset(p, image, ch) ==
  LET fresh == Len(p.heap) + 1
  IN [p EXCEPT !.canvases = Append(@, p.canvas),
               !.heap = Paste(Append(@, NewImage(sprite_width, ch)),
                              fresh, image, 0, 0),
               !.canvas = fresh,
               !.x = image.width,
               !.sprite_height = @ + ch,
               !.css = Append(@, Rule(image, Bare(0),
                                      Px(0 - p.sprite_height)))]

\* The overflow branch without the new canvas of lines 122-124: the image
\* is pasted on the canvas that was just appended.
Overflow_NoNewCanvas(p, image, ch) ==
  LET advanced == p.sprite_height + ch
  IN [p EXCEPT !.canvases = Append(@, p.canvas),
               !.heap = Paste(@, p.canvas, image, 0, 0),
               !.x = image.width,
               !.sprite_height = advanced,
               !.css = Append(@, Rule(image, Bare(0), Px(0 - advanced)))]

\* The overflow branch with "x += image_width" for "x = image_width".
Overflow_KeepsCursor(p, image, ch) ==
  LET fresh == Len(p.heap) + 1
      advanced == p.sprite_height + ch
  IN [p EXCEPT !.canvases = Append(@, p.canvas),
               !.heap = Paste(Append(@, NewImage(sprite_width, ch)),
                              fresh, image, 0, 0),
               !.canvas = fresh,
               !.x = @ + image.width,
               !.sprite_height = advanced,
               !.css = Append(@, Rule(image, Bare(0), Px(0 - advanced)))]

\* Lines 121-140.
Overflow(p, image, ch) ==
  LET fresh == Len(p.heap) + 1
      advanced == p.sprite_height + ch
  IN [p EXCEPT !.canvases = Append(@, p.canvas),
               !.heap = Paste(Append(@, NewImage(sprite_width, ch)),
                              fresh, image, 0, 0),
               !.canvas = fresh,
               !.x = image.width,
               !.sprite_height = advanced,
               !.css = Append(@, Rule(image, Bare(0), Px(0 - advanced)))]

\* The last row appended without advancing sprite_height.
LastRow_NoAdvance(p, ch) ==
  IF p.x < sprite_width
  THEN [p EXCEPT !.canvases = Append(@, p.canvas)]
  ELSE p

\* Lines 143-145.
LastRow(p, ch) ==
  IF LastRowOpen(p.x)
  THEN [p EXCEPT !.canvases = Append(@, p.canvas), !.sprite_height = @ + ch]
  ELSE p

\* Lines 158-159: sprite_image.paste(canvas, (0, sprite_y)).
PasteOnSprite(sprite, c, y) ==
  [sprite EXCEPT !.pasted = Append(@, [canvas |-> c, x |-> 0, y |-> y])]

\* Lines 80-140: the loop over the images of one key, from index i.
RECURSIVE PackImages(_, _, _, _)
PackImages(p, imgs, i, ch) ==
  IF i = Len(imgs) THEN p
  ELSE LET image == imgs[i + 1]
           q == IF StrictlyFits(p.x, image.width)
                THEN StrictFit(p, image)
                ELSE IF ExactlyFits(p.x, image.width)
                THEN ExactFit(p, image, IsLastImage(i, Len(imgs)), ch)
                ELSE Overflow(p, image, ch)
       IN PackImages(q, imgs, i + 1, ch)

\* Lines 66-145: the loop over the sorted keys; the packing state once the
\* first k keys are done.
RECURSIVE PackKeys(_, _, _)
PackKeys(map, keys, k) ==
  IF k = 0
  THEN [sprite_height |-> 0, css |-> <<>>, canvases |-> <<>>,
        heap |-> <<>>, canvas |-> 0, x |-> 0]
  ELSE LET ch == CanvasHeight(keys[k])
           imgs == map[ImagesOf(map, keys[k])].images
       IN LastRow(PackImages(Begin(PackKeys(map, keys, k - 1), ch),
                             imgs, 0, ch), ch)

\* Lines 41-168 as one function of the listing glob returned: the rules
\* written to sprite.css and the canvases pasted on the sprite, in order.
Created(listing) ==
  LET map == Categorized(<<>>, SortedByFilename(listing))
      keys == SortedKeys(map)
      p == PackKeys(map, keys, Len(keys))
  IN [css |-> SortedCss(p.css),
      canvases |-> [i \in 1..Len(p.canvases) |-> p.heap[p.canvases[i]]]]

-----------------------------------------------------------------------------
VARIABLES
  pc,             \* position in __init__
  files,          \* the png files of sprite_dir
  images,         \* line 25
  images_map,     \* line 24
  sorted_keys,    \* line 55
  sprite_height,  \* line 60
  css,            \* line 67
  canvases,       \* line 68: references into heap
  heap,           \* the RGBA objects made by Image.new for canvases
  key_index,      \* how many keys the loop of line 71 has taken
  canvas,         \* line 74: reference to the current canvas
  canvas_height,  \* line 72
  x,              \* line 77
  index,          \* line 80
  sprite_image,   \* line 151, <<>> before it exists
  sprite_y,       \* line 154
  pasted,         \* how many canvases the loop of line 157 has taken
  sprite_png,     \* output_dir/sprite.png, <<>> while not written
  sprite_css,     \* output_dir/sprite.css, <<>> while not written
  closed,         \* lines 147-148 have run
  warned,         \* line 35 has logged
  removed,        \* line 171 has removed sprite_dir
  outcome         \* "running", "skipped" (return of line 36), "created"

vars == <<pc, files, images, images_map, sorted_keys, sprite_height, css,
          canvases, heap, key_index, canvas, canvas_height, x, index,
          sprite_image, sprite_y, pasted, sprite_png, sprite_css, closed,
          warned, removed, outcome>>

loop == <<key_index, canvas_height, index>>
output == <<sprite_image, sprite_y, pasted, sprite_png, sprite_css, removed>>

\* The packing state as a record, and its assignment.
Packer ==
  [sprite_height |-> sprite_height, css |-> css, canvases |-> canvases,
   heap |-> heap, canvas |-> canvas, x |-> x]

SetPacker(p) ==
  /\ sprite_height' = p.sprite_height
  /\ css' = p.css
  /\ canvases' = p.canvases
  /\ heap' = p.heap
  /\ canvas' = p.canvas
  /\ x' = p.x

\* The images of the key the loop of line 71 is at, and the image the loop
\* of line 80 is at.
GroupImages == images_map[ImagesOf(images_map, sorted_keys[key_index])].images
GroupSize == Len(GroupImages)
CurrentImage == GroupImages[index + 1]

Init ==
  /\ files \in Directories
  /\ pc = "load"
  /\ images = <<>>
  /\ images_map = <<>>
  /\ sorted_keys = <<>>
  /\ sprite_height = 0
  /\ css = <<>>
  /\ canvases = <<>>
  /\ heap = <<>>
  /\ key_index = 0
  /\ canvas = 0
  /\ canvas_height = 0
  /\ x = 0
  /\ index = 0
  /\ sprite_image = <<>>
  /\ sprite_y = 0
  /\ pasted = 0
  /\ sprite_png = <<>>
  /\ sprite_css = <<>>
  /\ closed = FALSE
  /\ warned = FALSE
  /\ removed = FALSE
  /\ outcome = "running"

\* Lines 29-38: open every file; with no image, warn and return (the
\* finally clause of line 146 runs on the way out).
Load ==
  /\ pc = "load"
  /\ \E listing \in Glob(files) :
       /\ images' = listing
       /\ IF NoImages(listing)
          THEN /\ warned' = TRUE
               /\ closed' = TRUE
               /\ outcome' = "skipped"
               /\ pc' = "exit"
          ELSE /\ pc' = "sort"
               /\ UNCHANGED <<warned, closed, outcome>>
  /\ UNCHANGED <<files, images_map, sorted_keys, sprite_height, css, canvases,
                 heap, canvas, x, loop, output>>

\* Line 41.
SortImages ==
  /\ pc = "sort"
  /\ images' = SortedByFilename(images)
  /\ pc' = "categorize"
  /\ UNCHANGED <<files, images_map, sorted_keys, sprite_height, css, canvases,
                 heap, canvas, x, loop, output, closed, warned, outcome>>

\* Lines 44-52.
Categorize ==
  /\ pc = "categorize"
  /\ images_map' = Categorized(<<>>, images)
  /\ pc' = "keys"
  /\ UNCHANGED <<files, images, sorted_keys, sprite_height, css, canvases,
                 heap, canvas, x, loop, output, closed, warned, outcome>>

\* Lines 55-68.
SortKeys ==
  /\ pc = "keys"
  /\ sorted_keys' = SortedKeys(images_map)
  /\ pc' = "group"
  /\ UNCHANGED <<files, images, images_map, sprite_height, css, canvases,
                 heap, canvas, x, loop, output, closed, warned, outcome>>

\* Lines 71-77: the next key, a fresh canvas of its height, x = 0.
BeginGroup ==
  /\ pc = "group"
  /\ key_index < Len(sorted_keys)
  /\ key_index' = key_index + 1
  /\ canvas_height' = CanvasHeight(sorted_keys[key_index + 1])
  /\ SetPacker(Begin(Packer, canvas_height'))
  /\ index' = 0
  /\ pc' = "image"
  /\ UNCHANGED <<files, images, images_map, sorted_keys, output, closed,
                 warned, outcome>>

\* Lines 82-96.
PlaceStrictFit ==
  /\ pc = "image"
  /\ index < GroupSize
  /\ StrictlyFits(x, CurrentImage.width)
  /\ SetPacker(StrictFit(Packer, CurrentImage))
  /\ index' = index + 1
  /\ UNCHANGED <<pc, files, images, images_map, sorted_keys, key_index,
                 canvas_height, output, closed, warned, outcome>>

\* Lines 98-119.
PlaceExactFit ==
  /\ pc = "image"
  /\ index < GroupSize
  /\ ~StrictlyFits(x, CurrentImage.width)
  /\ ExactlyFits(x, CurrentImage.width)
  /\ SetPacker(ExactFit(Packer, CurrentImage, IsLastImage(index, GroupSize),
                        canvas_height))
  /\ index' = index + 1
  /\ UNCHANGED <<pc, files, images, images_map, sorted_keys, key_index,
                 canvas_height, output, closed, warned, outcome>>

\* Lines 120-140.
PlaceOverflow ==
  /\ pc = "image"
  /\ index < GroupSize
  /\ ~StrictlyFits(x, CurrentImage.width)
  /\ ~ExactlyFits(x, CurrentImage.width)
  /\ SetPacker(Overflow(Packer, CurrentImage, canvas_height))
  /\ index' = index + 1
  /\ UNCHANGED <<pc, files, images, images_map, sorted_keys, key_index,
                 canvas_height, output, closed, warned, outcome>>

\* Lines 142-145, after the last image of the key.
AppendLastRow ==
  /\ pc = "image"
  /\ index = GroupSize
  /\ SetPacker(LastRow(Packer, canvas_height))
  /\ pc' = "group"
  /\ UNCHANGED <<files, images, images_map, sorted_keys, loop, output, closed,
                 warned, outcome>>

\* Lines 146-148, after the last key.
CloseImages ==
  /\ pc = "group"
  /\ key_index = Len(sorted_keys)
  /\ closed' = TRUE
  /\ pc' = "sprite"
  /\ UNCHANGED <<files, images, images_map, sorted_keys, sprite_height, css,
                 canvases, heap, canvas, x, loop, output, warned, outcome>>

\* Lines 150-154.
CreateSprite ==
  /\ pc = "sprite"
  /\ sprite_image' = NewImage(sprite_width, sprite_height)
  /\ sprite_y' = 0
  /\ pasted' = 0
  /\ pc' = "paste"
  /\ UNCHANGED <<files, images, images_map, sorted_keys, sprite_height, css,
                 canvases, heap, canvas, x, loop, sprite_png, sprite_css,
                 removed, closed, warned, outcome>>

\* Lines 157-159.
PasteCanvas ==
  /\ pc = "paste"
  /\ pasted < Len(canvases)
  /\ sprite_image' = PasteOnSprite(sprite_image, canvases[pasted + 1], sprite_y)
  /\ sprite_y' = sprite_y + heap[canvases[pasted + 1]].size[2]
  /\ pasted' = pasted + 1
  /\ UNCHANGED <<pc, files, images, images_map, sorted_keys, sprite_height,
                 css, canvases, heap, canvas, x, loop, sprite_png, sprite_css,
                 removed, closed, warned, outcome>>

\* Line 162.
SaveSprite ==
  /\ pc = "paste"
  /\ pasted = Len(canvases)
  /\ sprite_png' = sprite_image
  /\ pc' = "css"
  /\ UNCHANGED <<files, images, images_map, sorted_keys, sprite_height, css,
                 canvases, heap, canvas, x, loop, sprite_image, sprite_y,
                 pasted, sprite_css, removed, closed, warned, outcome>>

\* Lines 164-168.
SaveCss ==
  /\ pc = "css"
  /\ css' = SortedCss(css)
  /\ sprite_css' = css'
  /\ pc' = "rmtree"
  /\ UNCHANGED <<files, images, images_map, sorted_keys, sprite_height,
                 canvases, heap, canvas, x, loop, sprite_image, sprite_y,
                 pasted, sprite_png, removed, closed, warned, outcome>>

\* Line 171, and the constructor returns.
RemoveImages ==
  /\ pc = "rmtree"
  /\ removed' = TRUE
  /\ outcome' = "created"
  /\ pc' = "exit"
  /\ UNCHANGED <<files, images, images_map, sorted_keys, sprite_height, css,
                 canvases, heap, canvas, x, loop, sprite_image, sprite_y,
                 pasted, sprite_png, sprite_css, closed, warned>>

Next ==
  \/ Load
  \/ SortImages
  \/ Categorize
  \/ SortKeys
  \/ BeginGroup
  \/ PlaceStrictFit
  \/ PlaceExactFit
  \/ PlaceOverflow
  \/ AppendLastRow
  \/ CloseImages
  \/ CreateSprite
  \/ PasteCanvas
  \/ SaveSprite
  \/ SaveCss
  \/ RemoveImages

Spec == Init /\ [][Next]_vars

TypeOK ==
  /\ pc \in {"load", "sort", "categorize", "keys", "group", "image",
             "sprite", "paste", "css", "rmtree", "exit"}
  /\ outcome \in {"running", "skipped", "created", "raised"}
  /\ sprite_height \in Nat
  /\ x \in Nat
  /\ \A i \in 1..Len(canvases) : canvases[i] \in 1..Len(heap)

-----------------------------------------------------------------------------
(* Vocabulary of the properties *)

\* Every width in 1..sprite_width-1 and every height at least 1, and at
\* least one image.
ValidInput ==
  /\ files # {}
  /\ \A im \in files : im.width \in 1..(sprite_width - 1) /\ im.height >= 1

\* The constructor has run to its end.
Finished == pc = "exit" /\ outcome = "created"

Rules == {css[i] : i \in 1..Len(css)}
RuleOf(f) == CHOOSE r \in Rules : r.filename = f

\* The column and the row a rule points at: its offsets are their negatives.
Column(r) == 0 - r.posx.val
Row(r) == 0 - r.posy.val

\* The canvas objects an image was pasted into.
CanvasesOf(f) ==
  {c \in 1..Len(heap) :
     \E k \in 1..Len(heap[c].pasted) : heap[c].pasted[k].filename = f}

\* The height of the first k canvases of the sealed list.
RECURSIVE SealedHeight(_)
SealedHeight(k) ==
  IF k = 0 THEN 0 ELSE SealedHeight(k - 1) + heap[canvases[k]].size[2]

\* The rectangles of the sprite that hold pixels of an image: a paste of a
\* canvas carries every image pasted on that canvas.
SpriteContent(sprite) ==
  UNION {{[filename |-> heap[sprite.pasted[b].canvas].pasted[k].filename,
           x |-> sprite.pasted[b].x + heap[sprite.pasted[b].canvas].pasted[k].x,
           y |-> sprite.pasted[b].y + heap[sprite.pasted[b].canvas].pasted[k].y,
           width |-> heap[sprite.pasted[b].canvas].pasted[k].width,
           height |-> heap[sprite.pasted[b].canvas].pasted[k].height] :
            k \in 1..Len(heap[sprite.pasted[b].canvas].pasted)} :
         b \in 1..Len(sprite.pasted)}

Overlap(a, b) ==
  /\ a.x < b.x + b.width /\ b.x < a.x + a.width
  /\ a.y < b.y + b.height /\ b.y < a.y + a.height

-----------------------------------------------------------------------------
\* C1: for every valid input and every image, the rule of the image (offsets
\* -x and -y) locates it in the saved sprite: the canvas pasted at the
\* cumulative height y of the canvases before it in the sealed list is the
\* canvas the image was pasted on at column x, and the region
\* [x, x+w) x [y, y+h) of the sprite holds that image and no other.
C1_RuleLocatesImage ==
  (ValidInput /\ Finished) =>
    \A im \in files :
      LET r == RuleOf(im.filename)
          region == [filename |-> im.filename, x |-> Column(r), y |-> Row(r),
                     width |-> im.width, height |-> im.height]
      IN /\ \E i \in 1..Len(css) : css[i].filename = im.filename
         /\ r.width.val = im.width /\ r.height.val = im.height
         /\ \E k \in 1..Len(canvases) :
              /\ SealedHeight(k - 1) = Row(r)
              /\ sprite_png.pasted[k] =
                   [canvas |-> canvases[k], x |-> 0, y |-> Row(r)]
              /\ \E q \in 1..Len(heap[canvases[k]].pasted) :
                   /\ heap[canvases[k]].pasted[q].filename = im.filename
                   /\ heap[canvases[k]].pasted[q].x = Column(r)
                   /\ heap[canvases[k]].pasted[q].y = 0
         /\ region \in SpriteContent(sprite_png)
         /\ region.x >= 0 /\ region.x + region.width <= sprite_png.size[1]
         /\ region.y >= 0 /\ region.y + region.height <= sprite_png.size[2]
         /\ \A other \in SpriteContent(sprite_png) :
              Overlap(other, region) => other.filename = im.filename

\* A finished run on valid images that filled more than one canvas and put
\* an image to the right of another.
C1_Witness ==
  /\ ValidInput /\ Finished
  /\ \E r1, r2 \in Rules : Row(r1) > 0 /\ Column(r2) > 0

\* C2: for valid inputs every rule's horizontal span [x, x+width) lies in
\* [0, sprite_width), and no two rules with the same vertical offset have
\* overlapping horizontal spans.
C2_SpansDisjoint ==
  ValidInput =>
    /\ \A r \in Rules :
         Column(r) >= 0 /\ Column(r) + r.width.val <= sprite_width
    /\ \A r1, r2 \in Rules :
         (r1 # r2 /\ r1.posy = r2.posy) =>
           \/ Column(r1) + r1.width.val <= Column(r2)
           \/ Column(r2) + r2.width.val <= Column(r1)

\* Two rules share a vertical offset and a third image overflowed.
C2_Witness ==
  /\ ValidInput /\ Finished
  /\ \E r1, r2 \in Rules : r1 # r2 /\ r1.posy = r2.posy
  /\ \E r \in Rules : Row(r) > 0 /\ Column(r) = 0

\* C5: whenever a seal step has completed, and at the end, sprite_height is
\* the sum of the heights of the sealed canvases; so the sprite's height is
\* that sum and the last canvas pasted on it ends at its bottom.
C5_HeightIsSealedSum ==
  /\ sprite_height = SealedHeight(Len(canvases))
  /\ sprite_png # <<>> =>
       /\ sprite_png.size[2] = SealedHeight(Len(canvases))
       /\ sprite_y = sprite_png.size[2]
       /\ Len(sprite_png.pasted) = Len(canvases)

\* The sprite was saved from three sealed canvases or more.
C5_Witness == sprite_png # <<>> /\ Len(canvases) >= 3 /\ sprite_height > 0

\* The images of the g-th key in packing order.
GroupAt(g) == images_map[ImagesOf(images_map, sorted_keys[g])].images

\* How often a canvas object is in the sealed list.
TimesSealed(c) == Cardinality({i \in 1..Len(canvases) : canvases[i] = c})

\* C3: when the last image of a size group exactly fills its row, the
\* group's canvas is sealed and sprite_height advances by the canvas height
\* exactly once, so the first image of the next group lies exactly one
\* canvas height further down (two 384x50 images then a 10x50 image: the
\* third gets the vertical offset -50).
C3_ExactFitSealsOnce ==
  (ValidInput /\ Finished) =>
    \A g \in 1..Len(sorted_keys) :
      LET last == GroupAt(g)[Len(GroupAt(g))]
          r == RuleOf(last.filename)
      IN (Column(r) + last.width = sprite_width) =>
           /\ \A c \in CanvasesOf(last.filename) : TimesSealed(c) = 1
           /\ g < Len(sorted_keys) =>
                Row(RuleOf(GroupAt(g + 1)[1].filename)) = Row(r) + last.height

\* The rows of the g-th group: the distinct vertical offsets of its rules.
GroupRows(g) ==
  {Row(RuleOf(GroupAt(g)[i].filename)) : i \in 1..Len(GroupAt(g))}

RECURSIVE RowsHeight(_)
RowsHeight(g) ==
  IF g = 0 THEN 0
  ELSE RowsHeight(g - 1)
       + Cardinality(GroupRows(g)) * GroupAt(g)[1].height

\* C4: for every valid input the height of the sprite is the sum over the
\* size groups of the number of distinct vertical offsets among the group's
\* rules times the group's height.
C4_HeightIsRowsTimesHeight ==
  (ValidInput /\ Finished) =>
    sprite_png.size[2] = RowsHeight(Len(sorted_keys))

\* The canvases pasted on the saved sprite, in order.
PastedCanvases ==
  [i \in 1..Len(sprite_png.pasted) |-> heap[sprite_png.pasted[i].canvas]]

\* C6: whatever order the images are listed in, the run writes the same
\* rules and pastes the same canvases in the same order; groups of equal
\* height and different width come in an order that does not depend on the
\* listing.
C6_ListingOrderIrrelevant ==
  Finished =>
    \A listing \in Glob(files) :
      Created(listing) = [css |-> sprite_css, canvases |-> PastedCanvases]

\* A finished run on three images or more with two size groups of equal
\* height.
C6_Witness ==
  /\ Finished
  /\ Cardinality(files) >= 3
  /\ \E g, h \in 1..Len(sorted_keys) :
       g # h /\ GroupAt(g)[1].height = GroupAt(h)[1].height

\* C7: for every valid input the rules of the images of one canvas carry
\* the same vertical offset, and the offset of a canvas is strictly more
\* negative than that of every canvas sealed before it.
C7_OffsetsPerCanvas ==
  ValidInput =>
    /\ \A r1, r2 \in Rules :
         CanvasesOf(r1.filename) \cap CanvasesOf(r2.filename) # {} =>
           r1.posy = r2.posy
    /\ \A i, j \in 1..Len(canvases) :
         (i < j /\ canvases[i] # canvases[j]) =>
           \A r1, r2 \in Rules :
             (/\ canvases[i] \in CanvasesOf(r1.filename)
              /\ canvases[j] \in CanvasesOf(r2.filename)) =>
               r2.posy.val < r1.posy.val

\* Two sealed canvases of one size group, the first with two images.
C7_Witness ==
  /\ ValidInput /\ Finished
  /\ \E i, j \in 1..Len(canvases) :
       /\ i < j /\ canvases[i] # canvases[j]
       /\ Len(heap[canvases[i]].pasted) >= 2
       /\ heap[canvases[i]].size = heap[canvases[j]].size

\* C8: with an image of width sprite_width or more the run fails before
\* any rule is emitted and produces no sprite.
C8_OversizedRejected ==
  (\E im \in files : im.width >= sprite_width) =>
    /\ css = <<>>
    /\ sprite_image = <<>>
    /\ sprite_png = <<>>
    /\ pc = "exit" => outcome = "raised"

NothingProduced ==
  /\ css = <<>> /\ canvases = <<>> /\ heap = <<>>
  /\ images_map = <<>> /\ sorted_keys = <<>>
  /\ sprite_image = <<>> /\ sprite_png = <<>> /\ sprite_css = <<>>
  /\ ~removed

\* C9 as stated: an empty directory makes the run fail with an error that
\* is signalled to the caller; no rule, no sprite, no further step.
C9_EmptyRaises ==
  files = {} =>
    /\ pc \in {"load", "exit"}
    /\ NothingProduced
    /\ pc = "exit" => outcome = "raised"

\* C9, amended: on an empty directory the run logs a warning and returns
\* normally, without signalling an error to the caller; no rule is
\* emitted, no sprite is produced and no further step runs.
C9_EmptySkipped ==
  files = {} =>
    /\ pc \in {"load", "exit"}
    /\ NothingProduced
    /\ pc = "exit" => (outcome = "skipped" /\ warned /\ closed)

\* The constructor has returned from an empty directory.
C9_Witness == files = {} /\ pc = "exit"

\* C10: a run that does not end in an error has, for every image, a rule
\* whose rectangle lies inside the sprite and whose canvas is in the sealed
\* list; no run emits a rule for an image whose canvas was never sealed.
C10_NoPartialPacking ==
  pc = "exit" =>
    /\ \A r \in Rules :
         \A c \in CanvasesOf(r.filename) : TimesSealed(c) >= 1
    /\ Finished =>
         \A im \in files :
           /\ \E r \in Rules : r.filename = im.filename
           /\ Row(RuleOf(im.filename)) >= 0
           /\ Row(RuleOf(im.filename)) + im.height <= sprite_png.size[2]

\* The places of a canvas object in the sealed list.
SealedAt(c) == {i \in 1..Len(canvases) : canvases[i] = c}

OffsetText(v) ==
  IF v = 0 THEN <<48>> ELSE <<45>> \o Digits(0 - v) \o <<112, 120>>

\* C12: in every emitted rule the horizontal and the vertical offset are
\* each rendered as the bare token 0 exactly when the value is zero and as
\* <value>px with a negative value otherwise, whichever of the three
\* placement branches emitted the rule.
C12_OffsetRendering ==
  \A r \in Rules :
    /\ r.posx.val <= 0 /\ r.posy.val <= 0
    /\ ArgText(r.posx) = OffsetText(r.posx.val)
    /\ ArgText(r.posy) = OffsetText(r.posy.val)
    /\ (ArgText(r.posx) = <<48>>) <=> (r.posx.val = 0)
    /\ (ArgText(r.posy) = <<48>>) <=> (r.posy.val = 0)

\* One group that had a strict fit at the origin, an exact fit to its
\* right and an overflow onto a second canvas.
C12_Witness ==
  \E r1, r2, r3 \in Rules :
    /\ r1.posy = r2.posy /\ r1.width = r3.width /\ r1.height = r3.height
    /\ Column(r1) = 0 /\ Row(r1) = 0
    /\ Column(r2) > 0 /\ Column(r2) + r2.width.val = sprite_width
    /\ Column(r3) = 0 /\ Row(r3) > 0

\* The loop is about to handle an image that overflows the row.
OverflowCase ==
  /\ pc = "image" /\ index < GroupSize
  /\ x + CurrentImage.width > sprite_width

\* C13: the step that handles an overflowing image appends the current
\* canvas to the sealed list and advances sprite_height by the canvas
\* height before its rule is emitted: the image is pasted at (0, 0) of a
\* fresh canvas of the group's height, its rule has the horizontal offset 0
\* and the negative of the advanced sprite_height as vertical offset, and x
\* is the image's width afterwards.
C13_OverflowOrder ==
  [][OverflowCase =>
       /\ canvases' = Append(canvases, canvas)
       /\ sprite_height' = sprite_height + canvas_height
       /\ canvas' = Len(heap) + 1 /\ Len(heap') = Len(heap) + 1
       /\ heap'[canvas'].size = <<sprite_width, canvas_height>>
       /\ heap'[canvas'].pasted =
            <<[filename |-> CurrentImage.filename, x |-> 0, y |-> 0,
               width |-> CurrentImage.width, height |-> CurrentImage.height]>>
       /\ \A c \in 1..Len(heap) : heap'[c] = heap[c]
       /\ Len(css') = Len(css) + 1
       /\ SubSeq(css', 1, Len(css)) = css
       /\ css'[Len(css')].filename = CurrentImage.filename
       /\ ArgText(css'[Len(css')].posx) = <<48>>
       /\ css'[Len(css')].posy.val = 0 - sprite_height'
       /\ css'[Len(css')].posy.val = 0 - (sprite_height + canvas_height)
       /\ x' = CurrentImage.width]_vars

\* An image has just overflowed a row that held an image: the canvas of
\* that row is the last of the sealed list, the current canvas holds the
\* one image and the last rule points at the advanced sprite_height.
C13_Witness ==
  /\ pc = "image" /\ index >= 2 /\ css # <<>> /\ canvases # <<>>
  /\ canvas \notin {canvases[i] : i \in 1..Len(canvases)}
  /\ Len(heap[canvas].pasted) = 1
  /\ heap[canvas].pasted[1].filename = css[Len(css)].filename
  /\ heap[canvases[Len(canvases)]].pasted # <<>>
  /\ heap[canvases[Len(canvases)]].size = heap[canvas].size
  /\ x = heap[canvas].pasted[1].width
  /\ Column(css[Len(css)]) = 0
  /\ Row(css[Len(css)]) = sprite_height /\ sprite_height > 0

\* The loop is about to handle an image that exactly fills the row and is
\* not the last of its group.
ExactFitNotLast ==
  /\ pc = "image" /\ index < GroupSize
  /\ x + CurrentImage.width = sprite_width
  /\ index # GroupSize - 1

\* The loop is about to handle an image behind a full row.
BehindFullRow == pc = "image" /\ index < GroupSize /\ x = sprite_width

\* No paste on any canvas starts at column sprite_width or beyond.
ColumnsInside ==
  \A c \in 1..Len(heap) : \A k \in 1..Len(heap[c].pasted) :
    heap[c].pasted[k].x < sprite_width

\* A canvas that was filled exactly and followed by a canvas of the same
\* group is in the sealed list once.
FullRowsSealedOnce ==
  \A c \in 1..(Len(heap) - 1) :
    (/\ heap[c].pasted # <<>> /\ heap[c + 1].pasted # <<>>
     /\ heap[c].size = heap[c + 1].size
     /\ heap[c].pasted[1].width = heap[c + 1].pasted[1].width
     /\ LET end == heap[c].pasted[Len(heap[c].pasted)]
        IN end.x + end.width = sprite_width) =>
      TimesSealed(c) = 1

\* C14: the exact fit of an image that is not the last of its group leaves
\* x at sprite_width and the canvas out of the sealed list; the next image
\* of the group then overflows, which appends that full canvas, once, and
\* pastes the image at x = 0 of a new canvas; no image is ever pasted at a
\* column of sprite_width or more.
C14_FullRowThenOverflow ==
  [][/\ ExactFitNotLast =>
          /\ x' = sprite_width
          /\ canvases' = canvases /\ canvas' = canvas
          /\ canvas \notin {canvases[i] : i \in 1..Len(canvases)}
          /\ pc' = "image" /\ index' < GroupSize
     /\ BehindFullRow =>
          /\ OverflowCase
          /\ canvases' = Append(canvases, canvas)
          /\ Cardinality({i \in 1..Len(canvases') : canvases'[i] = canvas}) = 1
          /\ canvas' # canvas
          /\ Len(heap'[canvas'].pasted) = 1
          /\ heap'[canvas'].pasted[1].filename = CurrentImage.filename
          /\ heap'[canvas'].pasted[1].x = 0
     /\ ColumnsInside' /\ FullRowsSealedOnce']_vars

\* The image behind an exactly filled row has just been handled: the full
\* canvas is the last of the sealed list and the image is alone on the
\* current canvas.
C14_Witness ==
  /\ pc = "image" /\ canvases # <<>>
  /\ LET full == heap[canvases[Len(canvases)]].pasted
     IN /\ Len(full) >= 2
        /\ full[Len(full)].x + full[Len(full)].width = sprite_width
        /\ full[1].width = heap[canvas].pasted[1].width
  /\ TimesSealed(canvases[Len(canvases)]) = 1
  /\ TimesSealed(canvas) = 0
  /\ Len(heap[canvas].pasted) = 1 /\ heap[canvas].pasted[1].x = 0

\* The heights of the canvas objects 1..c that are in the sealed list,
\* each counted once.
RECURSIVE HeightOfSealed(_)
HeightOfSealed(c) ==
  IF c = 0 THEN 0
  ELSE HeightOfSealed(c - 1)
       + (IF TimesSealed(c) > 0 THEN heap[c].size[2] ELSE 0)

\* C15: the append after the loop applies only to a canvas the exact-fit
\* and overflow branches have not appended: in every reachable state
\* (already of the runs on valid input) no canvas is in the sealed list
\* more than once, and sprite_height has advanced once per sealed canvas.
C15_SealedAtMostOnce ==
  ValidInput =>
    /\ \A c \in 1..Len(heap) : TimesSealed(c) <= 1
    /\ sprite_height = HeightOfSealed(Len(heap))

\* The files of the size of a rule, the number of those whose identifier
\* is smaller than the rule's, and the rule of the smallest of them.
SizeGroup(r) ==
  {im \in files : im.width = r.width.val /\ im.height = r.height.val}
PlaceInGroup(r) ==
  Cardinality({im \in SizeGroup(r) : StrLess(im.filename, r.filename)})
FirstOfGroup(r) ==
  CHOOSE q \in Rules :
    /\ q.width = r.width /\ q.height = r.height
    /\ \A im \in SizeGroup(r) : ~StrLess(im.filename, q.filename)

\* C16: for valid input the k-th image (k = 0, 1, ...) in ascending
\* identifier order of a size group of width w lies in row k \div c of the
\* group at x = (k % c) * w, where c = sprite_width \div w; every row of a
\* group but its last holds exactly c images.
C16_GridLayout ==
  ValidInput =>
    \A r \in Rules :
      LET k == PlaceInGroup(r)
          c == sprite_width \div r.width.val
      IN /\ \E q \in Rules :
              /\ q.width = r.width /\ q.height = r.height
              /\ \A im \in SizeGroup(r) : ~StrLess(im.filename, q.filename)
         /\ Column(r) = (k % c) * r.width.val
         /\ Row(r) = Row(FirstOfGroup(r)) + (k \div c) * r.height.val
         /\ \A j \in CanvasesOf(r.filename) :
              \E n \in 1..Len(heap[j].pasted) :
                /\ heap[j].pasted[n].filename = r.filename
                /\ heap[j].pasted[n].x = Column(r)
         /\ (Finished /\ \E q \in Rules :
                           /\ q.width = r.width /\ q.height = r.height
                           /\ Row(q) > Row(r)) =>
              Cardinality({q \in Rules : /\ q.width = r.width
                                         /\ q.height = r.height
                                         /\ Row(q) = Row(r)}) = c

\* A finished run on three valid images of one size, two to a row: the one
\* of the greatest identifier lies in the second row of the group.
C16_Witness ==
  /\ ValidInput /\ Finished
  /\ \E r \in Rules :
       /\ Cardinality(SizeGroup(r)) = 3
       /\ sprite_width \div r.width.val = 2
       /\ PlaceInGroup(r) = 2 /\ Row(r) > Row(FirstOfGroup(r))

\* C17: once a canvas is in the sealed list no later step pastes an image
\* on it or changes its placements in any other way, and it stays in the
\* list at its place: every paste on a canvas comes before its first seal.
C17_SealedIsFrozen ==
  [][/\ Len(canvases') >= Len(canvases)
     /\ \A i \in 1..Len(canvases) :
          /\ canvases'[i] = canvases[i]
          /\ heap'[canvases[i]] = heap[canvases[i]]]_vars

\* The packing is over with two canvases or more sealed, each holding an
\* image: the later ones were filled after the first was sealed.
C17_Witness ==
  /\ pc = "sprite"
  /\ Cardinality({canvases[i] : i \in 1..Len(canvases)}) >= 2
  /\ \A i \in 1..Len(canvases) : heap[canvases[i]].pasted # <<>>

\* The rules of the list are in strictly ascending order of their
\* identifiers, respectively of their formatted texts.
IdentifierOrder(rules) ==
  \A i, j \in 1..Len(rules) :
    i < j => StrLess(rules[i].filename, rules[j].filename)
TextOrder(rules) ==
  \A i, j \in 1..Len(rules) :
    i < j => StrLess(SpriteCss(rules[i]), SpriteCss(rules[j]))

\* No identifier of the directory holds a space or a character below it.
AboveSpace ==
  \A im \in files : \A n \in 1..Len(im.filename) : im.filename[n] > 32

\* The place of the rule of an identifier in the written css.
PlaceInCss(f) == CHOOSE i \in 1..Len(sprite_css) : sprite_css[i].filename = f

\* C18 as stated: the written list of rules, sorted by formatted text, is
\* in ascending identifier order for every set of unique identifiers,
\* prefixes of one another and identifiers with a space included.
C18_IdentifierOrder ==
  sprite_css # <<>> => IdentifierOrder(sprite_css)

\* C18, amended: the written list of rules is in ascending order of the
\* formatted texts; it is in ascending identifier order for every set of
\* unique identifiers none of which holds a space (or a character below
\* it), prefixes of one another included, but the rule of "a b" is written
\* before the rule of its prefix "a".
C18_TextOrder ==
  sprite_css # <<>> =>
    /\ Len(sprite_css) = Cardinality(files)
    /\ TextOrder(sprite_css)
    /\ AboveSpace => IdentifierOrder(sprite_css)
    /\ (\E im1, im2 \in files :
          im1.filename = <<97>> /\ im2.filename = <<97, 32, 98>>) =>
         PlaceInCss(<<97, 32, 98>>) < PlaceInCss(<<97>>)

\* The css is written for identifiers without a space of which one is a
\* prefix of the other, the rule of the greater one emitted first (its
\* image is the less high).
C18_Witness ==
  /\ Finished /\ AboveSpace
  /\ \E r1, r2 \in {sprite_css[i] : i \in 1..Len(sprite_css)} :
       /\ StrLess(r1.filename, r2.filename)
       /\ SubSeq(r2.filename, 1, Len(r1.filename)) = r1.filename
       /\ r2.height.val < r1.height.val
       /\ PlaceInCss(r1.filename) < PlaceInCss(r2.filename)

\* C19: images are partitioned by the exact pair (width, height): two
\* rules of the same canvas have the same width and the same height, that
\* height is the height of the canvas, and images that agree in only one
\* of width and height never share a size group or a canvas.
C19_ExactSizePartition ==
  /\ \A c \in 1..Len(heap) : \A r1, r2 \in Rules :
       (c \in CanvasesOf(r1.filename) /\ c \in CanvasesOf(r2.filename)) =>
         /\ r1.width = r2.width /\ r1.height = r2.height
         /\ r1.height.val = heap[c].size[2]
  /\ \A c \in 1..Len(heap) : \A k \in 1..Len(heap[c].pasted) :
       /\ heap[c].pasted[k].height = heap[c].size[2]
       /\ heap[c].pasted[k].width = heap[c].pasted[1].width
  /\ \A g, h \in 1..Len(images_map) :
       \A i \in 1..Len(images_map[g].images) :
         \A j \in 1..Len(images_map[h].images) :
           (g = h) <=>
             (/\ images_map[g].images[i].width = images_map[h].images[j].width
              /\ images_map[g].images[i].height
                   = images_map[h].images[j].height)

\* A finished run with two images on one canvas and a third image that
\* agrees with them in exactly one of width and height.
C19_Witness ==
  /\ Finished
  /\ \E r1, r2, r3 \in Rules :
       /\ r1 # r2
       /\ CanvasesOf(r1.filename) \cap CanvasesOf(r2.filename) # {}
       /\ (r3.width = r1.width) # (r3.height = r1.height)
       /\ CanvasesOf(r3.filename) \cap CanvasesOf(r1.filename) = {}
====
